---------------------------- MODULE Spec2Model ----------------------------
(***************************************************************************)
(* grigri.dates.range: day_range, date_range and the four frequency-bound  *)
(* partials, modelled statement by statement.                              *)
(*                                                                         *)
(* A datetime is an integer number of ticks; TicksPerDay ticks make a day, *)
(* tick 0 is midnight of 2011-01-01 (a Saturday).  The time of day of a    *)
(* datetime t is t % TicksPerDay; pandas' normalize=True removes it.       *)
(***************************************************************************)
EXTENDS Integers, Sequences, FiniteSets

\* ------------------------------------------------------------- bounds
\* Ticks in a day: abstraction of the microseconds of datetime.
TicksPerDay == 2
\* Largest |num_days| a caller passes.
MaxDays == 6
\* Input dates lie within Radius days of the calendar points of interest.
Radius == 2
\* The wall clock advances at most this many ticks.
MaxTicks == 2

\* Python's None for an omitted anchor_date / dt (datetimes are >= 0).
None == 0 - 1

\* ----------------------------------------------------------- calendar
IsLeap(y) == (y % 4 = 0 /\ y % 100 # 0) \/ y % 400 = 0

DaysInYear(y) == IF IsLeap(y) THEN 366 ELSE 365

DaysInMonth(y, m) ==
    IF m = 2 THEN (IF IsLeap(y) THEN 29 ELSE 28)
    ELSE IF m \in {4, 6, 9, 11} THEN 30 ELSE 31

RECURSIVE DaysBeforeYear(_)
DaysBeforeYear(y) ==
    IF y <= 2011 THEN 0 ELSE DaysBeforeYear(y - 1) + DaysInYear(y - 1)

RECURSIVE DaysBeforeMonth(_, _)
DaysBeforeMonth(y, m) ==
    IF m <= 1 THEN 0 ELSE DaysBeforeMonth(y, m - 1) + DaysInMonth(y, m - 1)

\* Day number of the calendar date y-m-d.
Ymd(y, m, d) == DaysBeforeYear(y) + DaysBeforeMonth(y, m) + d - 1

RECURSIVE YearFrom(_, _)
YearFrom(y, day) ==
    IF day < DaysBeforeYear(y + 1) THEN y ELSE YearFrom(y + 1, day)

YearOf(day) == YearFrom(2011, day)

RECURSIVE MonthFrom(_, _, _)
MonthFrom(y, m, day) ==
    IF day < Ymd(y, m, 1) + DaysInMonth(y, m) THEN m ELSE MonthFrom(y, m + 1, day)

MonthOf(day) == MonthFrom(YearOf(day), 1, day)

\* datetime.weekday(): Monday is 0, Sunday is 6.
Weekday(day) == (day + 5) % 7

\* ---------------------------------------------------------- datetimes
\* datetime(y, m, d) plus a time of day of tod ticks.
DT(day, tod) == day * TicksPerDay + tod

DayOf(t) == t \div TicksPerDay

\* datetime.timedelta(days).
timedelta(days) == days * TicksPerDay

\* Timestamp.normalize(): midnight of the same day.
normalize(t) == t - (t % TicksPerDay)

\* pd.date_range(start, end, normalize=True): both ends are normalized to
\* midnight, then one date per day from start to end inclusive; empty when
\* start is after end.
pd_date_range(start, end) ==
    LET s == normalize(start)
        e == normalize(end)
        n == IF e >= s THEN DayOf(e) - DayOf(s) + 1 ELSE 0
    IN  [i \in 1..n |-> s + timedelta(i - 1)]

\* -------------------------------------------- period boundary resolver
\* grigri.dates.scalar.first_of / end_of: first and last calendar date of the
\* period of frequency freq that contains dt.
QuarterFirstMonth(m) == m - ((m - 1) % 3)

first_of(dt, freq) ==
    LET day == DayOf(dt)
        y == YearOf(day)
        m == MonthOf(day)
    IN  CASE freq = "d" -> DT(day, 0)
          [] freq = "w" -> DT(day - Weekday(day), 0)
          [] freq = "m" -> DT(Ymd(y, m, 1), 0)
          [] freq = "q" -> DT(Ymd(y, QuarterFirstMonth(m), 1), 0)
          [] freq = "y" -> DT(Ymd(y, 1, 1), 0)

end_of(dt, freq) ==
    LET day == DayOf(dt)
        y == YearOf(day)
        m == MonthOf(day)
        qm == QuarterFirstMonth(m) + 2
    IN  CASE freq = "d" -> DT(day, 0)
          [] freq = "w" -> DT(day - Weekday(day) + 6, 0)
          [] freq = "m" -> DT(Ymd(y, m, DaysInMonth(y, m)), 0)
          [] freq = "q" -> DT(Ymd(y, qm, DaysInMonth(y, qm)), 0)
          [] freq = "y" -> DT(Ymd(y, 12, 31), 0)

\* -------------------------------------------------------------- state
VARIABLES
    pc,           \* line of range.py about to run, or "idle" / "done" / "raised"
    call,         \* the arguments the caller passed
    num_days, anchor_date, inclusive, shift, swing_date,   \* day_range locals
    swapped,      \* whether line 54 ran in this call
    dt, freq, full_range, start_date, end_date,            \* date_range locals
    result,       \* the returned DatetimeIndex
    exc,          \* the exception raised, "" when none
    steps,        \* the lines this call has executed so far
    clock,        \* datetime.now()
    memo,         \* an earlier completed call and what it returned
    small         \* whether callers draw arguments from the small sets

dayVars == <<num_days, anchor_date, inclusive, shift, swing_date, swapped>>
dateVars == <<dt, freq, full_range, start_date, end_date>>
envVars == <<clock, memo, small>>
vars == <<pc, call, dayVars, dateVars, result, exc, steps, envVars>>

\* ------------------------------------------------------------- inputs
Points == {Ymd(2012, 2, 29), Ymd(2012, 12, 31), Ymd(2013, 9, 5), Ymd(2013, 9, 15)}

Days == UNION {(p - Radius)..(p + Radius) : p \in Points}

Datetimes == {DT(d, tod) : d \in Days, tod \in 0..(TicksPerDay - 1)}

SmallDays == {Ymd(2012, 12, 30), Ymd(2012, 12, 31), Ymd(2013, 1, 1)}

SmallDatetimes == {DT(d, tod) : d \in SmallDays, tod \in {0, TicksPerDay - 1}}

Anchors == (IF small THEN SmallDatetimes ELSE Datetimes) \cup {None}

NumDays == IF small THEN (0 - 2)..2 ELSE (0 - MaxDays)..MaxDays

Freqs == {"d", "w", "m", "q", "y"}

\* The wall clock starts on the last tick of 2013-09-05.
ClockStart == DT(Ymd(2013, 9, 5), TicksPerDay - 1)

ClockEnd == ClockStart + (IF small THEN 1 ELSE MaxTicks)

IdleCall == [fn |-> "", n |-> 0, a |-> None, f |-> "", b |-> FALSE]

NoMemo == [call |-> IdleCall, result |-> <<>>]

IdleLocals ==
    /\ num_days = 0 /\ anchor_date = None /\ inclusive = FALSE
    /\ shift = 0 /\ swing_date = None /\ swapped = FALSE
    /\ dt = None /\ freq = "" /\ full_range = FALSE
    /\ start_date = None /\ end_date = None

InitCommon ==
    /\ pc = "idle" /\ call = IdleCall
    /\ IdleLocals
    /\ result = <<>> /\ exc = "" /\ steps = <<>>
    /\ clock = ClockStart /\ memo = NoMemo

Init == InitCommon /\ small = FALSE

InitDet == InitCommon /\ small = TRUE

\* ---------------------------------------------------------- day_range
\* A caller invokes day_range(n, a, b).
DayRangeCall ==
    /\ pc = "idle"
    /\ \E n \in NumDays, a \in Anchors, b \in BOOLEAN :
        /\ call' = [fn |-> "day_range", n |-> n, a |-> a, f |-> "", b |-> b]
        /\ num_days' = n /\ anchor_date' = a /\ inclusive' = b
    /\ pc' = "L40"
    /\ UNCHANGED <<shift, swing_date, swapped, dateVars, result, exc, steps, envVars>>

\* Mutant: the assertion is missing.
Mut_DayRangeAssert ==
    /\ pc = "L40"
    /\ steps' = Append(steps, "L40")
    /\ pc' = "L42" /\ exc' = exc
    /\ UNCHANGED <<call, dayVars, dateVars, result, envVars>>

\* assert num_days != 0, 'day_range must span at least one day'
DayRangeAssert ==
    /\ pc = "L40"
    /\ steps' = Append(steps, "L40")
    /\ IF num_days # 0
         THEN pc' = "L42" /\ exc' = exc
         ELSE pc' = "raised" /\ exc' = "AssertionError"
    /\ UNCHANGED <<call, dayVars, dateVars, result, envVars>>

\* Mutant: the clock is read even when anchor_date was supplied.
Mut_DayRangeNow ==
    /\ pc = "L42"
    /\ anchor_date' = clock /\ steps' = Append(steps, "L43")
    /\ pc' = "L45"
    /\ UNCHANGED <<call, num_days, inclusive, shift, swing_date, swapped,
                   dateVars, result, exc, envVars>>

\* if anchor_date is None: anchor_date = datetime.now()
DayRangeNow ==
    /\ pc = "L42"
    /\ IF anchor_date = None
         THEN anchor_date' = clock /\ steps' = Append(steps, "L43")
         ELSE anchor_date' = anchor_date /\ steps' = Append(steps, "L42")
    /\ pc' = "L45"
    /\ UNCHANGED <<call, num_days, inclusive, shift, swing_date, swapped,
                   dateVars, result, exc, envVars>>

\* Mutant: shift ignores the sign of num_days.
Mut_DayRangeShift ==
    /\ pc = "L45"
    /\ shift' = 1
    /\ pc' = "L47"
    /\ steps' = Append(steps, "L45")
    /\ UNCHANGED <<call, num_days, anchor_date, inclusive, swing_date, swapped,
                   dateVars, result, exc, envVars>>

\* shift = 1 if num_days > 0 else -1
DayRangeShift ==
    /\ pc = "L45"
    /\ shift' = (IF num_days > 0 THEN 1 ELSE 0 - 1)
    /\ pc' = "L47"
    /\ steps' = Append(steps, "L45")
    /\ UNCHANGED <<call, num_days, anchor_date, inclusive, swing_date, swapped,
                   dateVars, result, exc, envVars>>

\* Mutant: the swing date is not pulled back by shift (off by one day).
Mut_DayRangeSwing ==
    /\ pc = "L47"
    /\ swing_date' = anchor_date + timedelta(num_days)
    /\ pc' = "L49"
    /\ steps' = Append(steps, "L47")
    /\ UNCHANGED <<call, num_days, anchor_date, inclusive, shift, swapped,
                   dateVars, result, exc, envVars>>

\* swing_date = anchor_date + timedelta(num_days - shift)
DayRangeSwing ==
    /\ pc = "L47"
    /\ swing_date' = anchor_date + timedelta(num_days - shift)
    /\ pc' = "L49"
    /\ steps' = Append(steps, "L47")
    /\ UNCHANGED <<call, num_days, anchor_date, inclusive, shift, swapped,
                   dateVars, result, exc, envVars>>

\* Mutant: only swing_date is shifted when the anchor is excluded.
Mut_DayRangeInclusive ==
    /\ pc = "L49"
    /\ IF ~inclusive
         THEN /\ anchor_date' = anchor_date
              /\ swing_date' = swing_date + timedelta(shift)
         ELSE UNCHANGED <<anchor_date, swing_date>>
    /\ pc' = "L53"
    /\ steps' = Append(steps, "L49")
    /\ UNCHANGED <<call, num_days, inclusive, shift, swapped,
                   dateVars, result, exc, envVars>>

\* if not inclusive: anchor_date += timedelta(shift); swing_date += timedelta(shift)
DayRangeInclusive ==
    /\ pc = "L49"
    /\ IF ~inclusive
         THEN /\ anchor_date' = anchor_date + timedelta(shift)
              /\ swing_date' = swing_date + timedelta(shift)
         ELSE UNCHANGED <<anchor_date, swing_date>>
    /\ pc' = "L53"
    /\ steps' = Append(steps, "L49")
    /\ UNCHANGED <<call, num_days, inclusive, shift, swapped,
                   dateVars, result, exc, envVars>>

\* Mutant: the bounds are never swapped.
Mut_DayRangeSwap ==
    /\ pc = "L53"
    /\ UNCHANGED <<anchor_date, swing_date, swapped>>
    /\ pc' = "L56"
    /\ steps' = Append(steps, "L53")
    /\ UNCHANGED <<call, num_days, inclusive, shift, dateVars, result, exc, envVars>>

\* if anchor_date > swing_date: anchor_date, swing_date = swing_date, anchor_date
DayRangeSwap ==
    /\ pc = "L53"
    /\ IF anchor_date > swing_date
         THEN /\ anchor_date' = swing_date
              /\ swing_date' = anchor_date
              /\ swapped' = TRUE
         ELSE UNCHANGED <<anchor_date, swing_date, swapped>>
    /\ pc' = "L56"
    /\ steps' = Append(steps, "L53")
    /\ UNCHANGED <<call, num_days, inclusive, shift, dateVars, result, exc, envVars>>

\* return pd.date_range(anchor_date, swing_date, normalize=True)
DayRangeReturn ==
    /\ pc = "L56"
    /\ result' = pd_date_range(anchor_date, swing_date)
    /\ pc' = "done"
    /\ steps' = Append(steps, "L56")
    /\ UNCHANGED <<call, dayVars, dateVars, exc, envVars>>

\* --------------------------------------------------------- date_range
\* Entry into date_range's body with dt, freq and full_range bound.
EnterDateRange(name, d, f, fr) ==
    /\ pc = "idle"
    /\ call' = [fn |-> name, n |-> 0, a |-> d, f |-> f, b |-> fr]
    /\ dt' = d /\ freq' = f /\ full_range' = fr
    /\ pc' = "L71"
    /\ UNCHANGED <<start_date, end_date, dayVars, result, exc, steps, envVars>>

\* A caller invokes date_range(d, f, fr).
DateRangeCall ==
    \E d \in Anchors, f \in Freqs, fr \in BOOLEAN : EnterDateRange("date_range", d, f, fr)

\* if dt is None: dt = datetime.now()
DateRangeNow ==
    /\ pc = "L71"
    /\ IF dt = None
         THEN dt' = clock /\ steps' = Append(steps, "L72")
         ELSE dt' = dt /\ steps' = Append(steps, "L71")
    /\ pc' = "L74"
    /\ UNCHANGED <<call, freq, full_range, start_date, end_date, dayVars,
                   result, exc, envVars>>

\* Mutant: the start is resolved with end_of.
Mut_DateRangeFirst ==
    /\ pc = "L74"
    /\ start_date' = end_of(dt, freq)
    /\ pc' = "L75"
    /\ steps' = Append(steps, "L74")
    /\ UNCHANGED <<call, dt, freq, full_range, end_date, dayVars, result, exc, envVars>>

\* start_date = first_of(dt=dt, freq=freq)
DateRangeFirst ==
    /\ pc = "L74"
    /\ start_date' = first_of(dt, freq)
    /\ pc' = "L75"
    /\ steps' = Append(steps, "L74")
    /\ UNCHANGED <<call, dt, freq, full_range, end_date, dayVars, result, exc, envVars>>

\* Mutant: full_range is ignored, the range always stops at dt.
Mut_DateRangeEnd_ToDate ==
    /\ pc = "L75"
    /\ end_date' = dt
    /\ pc' = "L77"
    /\ steps' = Append(steps, "L75")
    /\ UNCHANGED <<call, dt, freq, full_range, start_date, dayVars, result, exc, envVars>>

\* Mutant: full_range is ignored, the range always covers the whole period.
Mut_DateRangeEnd_Full ==
    /\ pc = "L75"
    /\ end_date' = end_of(dt, freq)
    /\ pc' = "L77"
    /\ steps' = Append(steps, "L75")
    /\ UNCHANGED <<call, dt, freq, full_range, start_date, dayVars, result, exc, envVars>>

\* end_date = end_of(dt=dt, freq=freq) if full_range else dt
DateRangeEnd ==
    /\ pc = "L75"
    /\ end_date' = (IF full_range THEN end_of(dt, freq) ELSE dt)
    /\ pc' = "L77"
    /\ steps' = Append(steps, "L75")
    /\ UNCHANGED <<call, dt, freq, full_range, start_date, dayVars, result, exc, envVars>>

\* return pd.date_range(start_date, end_date, normalize=True)
DateRangeReturn ==
    /\ pc = "L77"
    /\ result' = pd_date_range(start_date, end_date)
    /\ pc' = "done"
    /\ steps' = Append(steps, "L77")
    /\ UNCHANGED <<call, dateVars, dayVars, exc, envVars>>

\* ----------------------------------------------------------- partials
\* partial(date_range, freq=f) called with dt and full_range.
partial_date_range(name, f) ==
    \E d \in Anchors, fr \in BOOLEAN : EnterDateRange(name, d, f, fr)

\* Mutant: week_range is bound to the month frequency.
Mut_week_range == partial_date_range("week_range", "m")

week_range == partial_date_range("week_range", "w")

month_range == partial_date_range("month_range", "m")

quarter_range == partial_date_range("quarter_range", "q")

year_range == partial_date_range("year_range", "y")

Wrappers == {"week_range", "month_range", "quarter_range", "year_range"}

\* ------------------------------------------------------- environment
\* The frame of a finished call is gone.
Reset ==
    /\ pc' = "idle" /\ call' = IdleCall
    /\ num_days' = 0 /\ anchor_date' = None /\ inclusive' = FALSE
    /\ shift' = 0 /\ swing_date' = None /\ swapped' = FALSE
    /\ dt' = None /\ freq' = "" /\ full_range' = FALSE
    /\ start_date' = None /\ end_date' = None
    /\ result' = <<>> /\ exc' = "" /\ steps' = <<>>

\* The caller takes the result (or the exception).
Finish ==
    /\ pc \in {"done", "raised"}
    /\ Reset
    /\ UNCHANGED envVars

\* Time passes.
Tick ==
    /\ clock < ClockEnd
    /\ clock' = clock + 1
    /\ UNCHANGED <<pc, call, dayVars, dateVars, result, exc, steps, memo, small>>

\* The caller takes the result of a call with explicit arguments and keeps
\* it, with the arguments, to compare with later calls.
Remember ==
    /\ pc = "done"
    /\ call.a # None
    /\ memo' = [call |-> call, result |-> result]
    /\ Reset
    /\ UNCHANGED <<clock, small>>

Next ==
    \/ DayRangeCall \/ DayRangeAssert \/ DayRangeNow \/ DayRangeShift
    \/ DayRangeSwing \/ DayRangeInclusive \/ DayRangeSwap \/ DayRangeReturn
    \/ DateRangeCall \/ DateRangeNow \/ DateRangeFirst \/ DateRangeEnd
    \/ DateRangeReturn
    \/ week_range \/ month_range \/ quarter_range \/ year_range
    \/ Finish \/ Tick

NextDet == Next \/ Remember

Spec == Init /\ [][Next]_vars

SpecDet == InitDet /\ [][NextDet]_vars

\* ------------------------------------------------------------ claims
Abs(n) == IF n < 0 THEN 0 - n ELSE n

Elems(s) == {s[i] : i \in 1..Len(s)}

\* Neighbouring dates of s differ by exactly one day.
Consecutive(s) == \A i \in 1..(Len(s) - 1) : s[i + 1] = s[i] + timedelta(1)

\* The n daily dates starting at lo.
Daily(lo, n) == [i \in 1..n |-> lo + timedelta(i - 1)]

HasTimeOfDay(t) == t % TicksPerDay # 0

\* day_range has returned from a call with an explicit anchor_date.
DayDone == pc = "done" /\ call.fn = "day_range" /\ call.a # None

\* date_range itself has returned from a call with an explicit dt.
DateDone == pc = "done" /\ call.fn = "date_range" /\ call.a # None

\* C1 as stated: day_range(n, a, inclusive=True) has |n| dates, one day apart
\* and ascending, and a itself is one of them.
C1_Original ==
    (DayDone /\ call.b) =>
        /\ Len(result) = Abs(call.n)
        /\ Consecutive(result)
        /\ call.a \in Elems(result)

\* C1 amended: day_range(n, a, inclusive=True) has |n| dates, one day apart
\* and ascending, and contains a normalized to midnight (a itself only when a
\* carries no time of day).
C1_InclusiveSpan ==
    (DayDone /\ call.b) =>
        /\ Len(result) = Abs(call.n)
        /\ Consecutive(result)
        /\ normalize(call.a) \in Elems(result)
        /\ (~HasTimeOfDay(call.a) => call.a \in Elems(result))

C1_Witness ==
    DayDone /\ call.b /\ call.n < 0 - 1 /\ HasTimeOfDay(call.a)

\* C2: day_range(n, a, inclusive=False) has |n| dates and a is not one of
\* them; nor is the midnight of a's day.
C2_ExclusiveSpan ==
    (DayDone /\ ~call.b) =>
        /\ Len(result) = Abs(call.n)
        /\ call.a \notin Elems(result)
        /\ normalize(call.a) \notin Elems(result)

C2_Witness ==
    DayDone /\ ~call.b /\ call.n > 1 /\ ~HasTimeOfDay(call.a)

\* C3: day_range(0, a, inclusive) raises at the assertion, whatever a and
\* inclusive are: nothing ran before it, the clock was not read, no local was
\* computed, and no range is ever returned.
C3_ZeroRaises ==
    (call.fn = "day_range" /\ call.n = 0) =>
        /\ pc \in {"L40", "raised"}
        /\ result = <<>>
        /\ anchor_date = call.a /\ shift = 0 /\ swing_date = None
        /\ (pc = "L40" => steps = <<>> /\ exc = "")
        /\ (pc = "raised" => steps = <<"L40">> /\ exc = "AssertionError")

C3_Witness ==
    pc = "raised" /\ call.n = 0 /\ call.a = None /\ ~call.b

PeriodFreqs == {"w", "m", "q", "y"}

\* C4 as stated: date_range(d, f, full_range=True) is the daily sequence from
\* first_of(d, f) to end_of(d, f) and d itself is one of its dates.
C4_Original ==
    (DateDone /\ call.b /\ call.f \in PeriodFreqs) =>
        /\ Len(result) >= 1
        /\ result[1] = first_of(call.a, call.f)
        /\ result[Len(result)] = end_of(call.a, call.f)
        /\ Consecutive(result)
        /\ call.a \in Elems(result)

\* C4 amended: date_range(d, f, full_range=True) is the daily sequence from
\* first_of(d, f) to end_of(d, f) and contains d normalized to midnight.
C4_FullPeriod ==
    (DateDone /\ call.b /\ call.f \in PeriodFreqs) =>
        /\ Len(result) >= 1
        /\ result[1] = first_of(call.a, call.f)
        /\ result[Len(result)] = end_of(call.a, call.f)
        /\ Consecutive(result)
        /\ normalize(call.a) \in Elems(result)

C4_Witness ==
    DateDone /\ call.b /\ call.f = "q" /\ HasTimeOfDay(call.a)

\* C5 as stated: date_range(d, f, full_range=False) is the daily sequence
\* from first_of(d, f) whose last date is d, of length days(d - first_of) + 1.
C5_Original ==
    (DateDone /\ ~call.b) =>
        /\ Len(result) = DayOf(call.a) - DayOf(first_of(call.a, call.f)) + 1
        /\ result[1] = first_of(call.a, call.f)
        /\ result[Len(result)] = call.a
        /\ Consecutive(result)

\* C5 amended: date_range(d, f, full_range=False) is the daily sequence from
\* first_of(d, f) whose last date is d normalized to midnight, of length
\* days(d - first_of) + 1.
C5_PeriodToDate ==
    (DateDone /\ ~call.b) =>
        /\ Len(result) = DayOf(call.a) - DayOf(first_of(call.a, call.f)) + 1
        /\ result[1] = first_of(call.a, call.f)
        /\ result[Len(result)] = normalize(call.a)
        /\ Consecutive(result)

C5_Witness ==
    DateDone /\ ~call.b /\ call.f = "m" /\ HasTimeOfDay(call.a) /\ Len(result) > 1

\* The frequency each partial was built with.
FreqOfWrapper(name) ==
    CASE name = "week_range" -> "w"
      [] name = "month_range" -> "m"
      [] name = "quarter_range" -> "q"
      [] name = "year_range" -> "y"

\* A wrapper has returned and the kept call is date_range with the same dt
\* and full_range and the wrapper's frequency.
C6_Paired ==
    /\ pc = "done" /\ call.fn \in Wrappers
    /\ memo.call.fn = "date_range"
    /\ memo.call.a = call.a /\ memo.call.b = call.b
    /\ memo.call.f = FreqOfWrapper(call.fn)

\* C6: a wrapper runs date_range's body with its own frequency, and returns
\* exactly what date_range returned for the same dt and full_range with that
\* frequency.
C6_WrappersForward ==
    /\ call.fn \in Wrappers => freq = FreqOfWrapper(call.fn)
    /\ C6_Paired => result = memo.result

C6_Witness ==
    C6_Paired /\ call.fn = "week_range" /\ ~call.b /\ Len(result) > 1

\* C7: a call with explicit arguments returns what an earlier call with the
\* same arguments returned, whatever ran and however much time passed since.
C7_Deterministic ==
    (pc = "done" /\ call = memo.call) => result = memo.result

C7_Witness ==
    /\ pc = "done" /\ call = memo.call /\ clock # ClockStart
    /\ call.fn = "day_range" /\ call.n = 0 - 2

\* Offset in days of the first returned date from the anchor's day.
C8_Offset ==
    CASE call.n > 0 /\ call.b -> 0
      [] call.n > 0 /\ ~call.b -> 1
      [] call.n < 0 /\ call.b -> call.n + 1
      [] call.n < 0 /\ ~call.b -> call.n

\* The swap of line 54 is taken exactly when num_days <= -2.
C8_SwapRule ==
    /\ swapped => call.fn = "day_range" /\ call.n <= 0 - 2
    /\ (call.fn = "day_range" /\ pc \in {"L56", "done"}) =>
            (swapped <=> call.n <= 0 - 2)

\* C8 as stated: the result runs from a (+1 day when not inclusive) forward
\* for n > 0, and up to a (-1 day when not inclusive) for n < 0, as datetimes;
\* the swap is taken exactly when n <= -2.
C8_Original ==
    /\ C8_SwapRule
    /\ DayDone =>
        /\ Len(result) = Abs(call.n)
        /\ result[1] = call.a + timedelta(C8_Offset)
        /\ result[Len(result)] = call.a + timedelta(C8_Offset + Abs(call.n) - 1)

\* C8 amended: the same bounds, taken from a normalized to midnight; the
\* result is ascending and daily; the swap is taken exactly when n <= -2.
C8_Bounds ==
    /\ C8_SwapRule
    /\ DayDone =>
        result = Daily(normalize(call.a) + timedelta(C8_Offset), Abs(call.n))

C8_Witness ==
    DayDone /\ call.n = 0 - MaxDays /\ ~call.b /\ swapped /\ HasTimeOfDay(call.a)

\* C9: the bounds date_range hands to pd.date_range satisfy
\* start_date <= end_date, the result is never empty, and for d = first_of(d, f)
\* with full_range=False the result is [d].
C9_BoundsOrdered ==
    /\ pc = "L77" => start_date <= end_date
    /\ (pc = "done" /\ call.fn # "day_range") => Len(result) >= 1
    /\ (DateDone /\ ~call.b /\ call.a = first_of(call.a, call.f)) =>
            result = <<call.a>>

C9_Witness ==
    DateDone /\ ~call.b /\ call.f = "m" /\ call.a = first_of(call.a, "m")

\* An exclusive call has returned and the kept call is the inclusive call with
\* the same n and the anchor moved by shift days.
C10_Paired ==
    /\ DayDone /\ ~call.b
    /\ memo.call.fn = "day_range" /\ memo.call.b
    /\ memo.call.n = call.n
    /\ memo.call.a = call.a + timedelta(IF call.n > 0 THEN 1 ELSE 0 - 1)

\* C10 as stated: the exclusive call equals the inclusive call at the shifted
\* anchor, and the one-day spans are [a], [a], [a+1] and [a-1] as datetimes.
C10_Original ==
    /\ C10_Paired => result = memo.result
    /\ (DayDone /\ Abs(call.n) = 1) =>
            result = <<call.a + timedelta(IF call.b THEN 0 ELSE call.n)>>

\* C10 amended: the exclusive call equals the inclusive call at the shifted
\* anchor, and the one-day spans are [a], [a], [a+1] and [a-1] with a
\* normalized to midnight.
C10_ShiftRelation ==
    /\ C10_Paired => result = memo.result
    /\ (DayDone /\ Abs(call.n) = 1) =>
            result = <<normalize(call.a) + timedelta(IF call.b THEN 0 ELSE call.n)>>

C10_Witness ==
    C10_Paired /\ call.n = 0 - 2 /\ HasTimeOfDay(call.a)

=============================================================================
